---- MODULE Spec2Model ----
(***************************************************************************)
(* Carbon-intensity pipeline: the bronze extraction of tp1_extraccion.py   *)
(* (incremental window, bounded retry, upsert, full factors load) and the  *)
(* silver transforms of tp2_procesamiento.py.                              *)
(*                                                                         *)
(* Time is counted in minutes since an epoch.  A data frame is a sequence  *)
(* of rows, a row is a record whose fields are the frame's columns.  A     *)
(* Delta table is [exists, rows].  A numeric cell is Num(n) or NaN.        *)
(***************************************************************************)
EXTENDS Integers, Sequences, FiniteSets, TLC

\* ------------------------------------------------------------------ bounds
MaxSlot == 2        \* half-hour intervals the API can return: 0..MaxSlot
MaxTick == 2        \* instants the wall clock can show: 0..MaxTick
MaxBatch == 2       \* records in one API response
MaxRetries == 3     \* largest `retries` call_api is called with
MaxBronze == 2      \* rows of the bronze intensity table tp2 starts on
MaxFactorRows == 2  \* rows of the bronze factors table tp2 starts on
MaxConcurrentBatch == 1  \* records each of two concurrent upserts brings

\* ------------------------------------------------------- program constants
THIRTY_MIN == 30
SEVEN_DAYS == 7 * 24 * 60
DEFAULT_RETRIES == 3
MINUTES_PER_DAY == 24 * 60

\* The first interval starts at 23:30 of day 7, so the intervals straddle a
\* midnight and now - 7 days is never before the epoch.
SlotBase == 8 * MINUTES_PER_DAY - THIRTY_MIN
Slots == {SlotBase + THIRTY_MIN * i : i \in 0..MaxSlot}
\* The clock first shows a quarter past an interval start, then whole half hours.
ClockAt(t) == IF t = 0 THEN SlotBase + THIRTY_MIN + 15
              ELSE SlotBase + THIRTY_MIN * (t + 1)
Clock == {ClockAt(t) : t \in 0..MaxTick}

\* ------------------------------------------------------------------- cells
Num(n) == [k |-> "num", n |-> n]
NaN == [k |-> "nan"]
RawStr == [k |-> "str"]       \* a JSON string that is not a number
RawNull == [k |-> "null"]     \* JSON null
None == [k |-> "none"]        \* Python None

\* pd.to_numeric(x, errors="coerce")
to_numeric(x) == IF x.k = "num" THEN x ELSE NaN

\* An ISO-8601 UTC instant, as the API writes it and isoformat() prints it.
Iso(t) == [d |-> t \div MINUTES_PER_DAY, m |-> t % MINUTES_PER_DAY]
\* pd.to_datetime(x, utc=True)
to_datetime(s) == s.d * MINUTES_PER_DAY + s.m
\* df["from"].dt.date.astype(str)
date_of(t) == t \div MINUTES_PER_DAY

Columns(df) == IF df = <<>> THEN {} ELSE DOMAIN df[1]
Range(s) == {s[i] : i \in 1..Len(s)}

SeqsUpTo(S, n) == UNION {[1..k -> S] : k \in 0..n}

\* ------------------------------------------------------------ Delta tables
NoTable == [exists |-> FALSE, rows |-> <<>>]

is_delta_table(tbl) == tbl.exists

\* DeltaTable(path).to_pandas()
to_pandas(tbl) == tbl.rows

\* write_deltalake(path, df, mode="overwrite", partition_by=cols) raises when
\* the frame has no columns (no schema to create the table with) or lacks a
\* partition column.
write_raises(df, partition_cols) ==
    \/ Columns(df) = {}
    \/ ~(partition_cols \subseteq Columns(df))

write_deltalake(df) == [exists |-> TRUE, rows |-> df]

\* ------------------------------------------------- tp1: extraction helpers
\* data.get("data", []) on the decoded JSON body
get_data(resp) == IF resp.has_data THEN resp.data ELSE <<>>

\* pd.json_normalize of the intensity records: the nested `intensity` object
\* becomes the columns intensity.actual and intensity.forecast.
json_normalize_intensity(results) ==
    [i \in 1..Len(results) |->
        [from |-> results[i].from,
         to |-> results[i].to,
         intensity_actual |-> results[i].intensity.actual,
         intensity_forecast |-> results[i].intensity.forecast]]

\* pd.json_normalize of the factor records: already flat.
json_normalize_factors(results) == results

get_intensity_range(resp) == json_normalize_intensity(get_data(resp))

get_intensity_factors(resp) == json_normalize_factors(get_data(resp))

Ts(t) == [k |-> "ts", t |-> t]

MaxOf(S) == CHOOSE x \in S : \A y \in S : y <= x

get_last_from_timestamp(tbl) ==
    IF ~is_delta_table(tbl) THEN None
    ELSE LET df == to_pandas(tbl) IN
         IF "from" \notin Columns(df) \/ df = <<>> THEN None
         ELSE Ts(MaxOf({df[i].from : i \in 1..Len(df)}))

NothingNew_strict(from_dt, now_) == from_dt > now_

\* from_dt >= now
NothingNew(from_dt, now_) == from_dt >= now_

FirstStart_day(now_) == now_ - MINUTES_PER_DAY

FirstStart(now_) == now_ - SEVEN_DAYS

NextStart(last_from) == last_from + THIRTY_MIN

compute_incremental_window(tbl, now_) ==
    LET last_from == get_last_from_timestamp(tbl)
        from_dt == IF last_from = None THEN FirstStart(now_)
                   ELSE NextStart(last_from.t)
    IN IF NothingNew(from_dt, now_) THEN None
       ELSE <<Iso(from_dt), Iso(now_)>>

normalize_intensity(df, now_) ==
    IF df = <<>> THEN df
    ELSE [i \in 1..Len(df) |->
            [from |-> to_datetime(df[i].from),
             to |-> to_datetime(df[i].to),
             intensity_actual |-> to_numeric(df[i].intensity_actual),
             intensity_forecast |-> to_numeric(df[i].intensity_forecast),
             date_part |-> date_of(to_datetime(df[i].from)),
             ingestion_ts |-> Iso(now_)]]

\* c.lower().strip() on the column names the factor catalog can carry
lower_strip(c) ==
    CASE c = "Coal" -> "coal"
      [] c = " Gas_gCO2perKWh " -> "gas_gco2perkwh"
      [] OTHER -> c

\* "gco2" in c
has_gco2(c) == c \in {"gas_gco2perkwh"}

rename_lower(r) ==
    [c2 \in {lower_strip(c) : c \in DOMAIN r} |->
        r[CHOOSE c \in DOMAIN r : lower_strip(c) = c2]]

normalize_factors(df, now_) ==
    IF df = <<>> THEN df
    ELSE [i \in 1..Len(df) |->
            LET r == rename_lower(df[i]) IN
            [c \in DOMAIN r \cup {"ingestion_ts"} |->
                IF c = "ingestion_ts" THEN Iso(now_)
                ELSE IF has_gco2(c) THEN to_numeric(r[c])
                ELSE r[c]]]

KeepRow_all(df, i, key_cols) == TRUE

\* The natural key of a row.
KeyOf(r, key_cols) == [c \in key_cols |-> r[c]]

\* df.drop_duplicates(subset=key_cols): the first row of each key is kept.
KeepRow(df, i, key_cols) ==
    \A j \in 1..(i - 1) : KeyOf(df[j], key_cols) # KeyOf(df[i], key_cols)

RECURSIVE drop_duplicates(_, _)
drop_duplicates(df, key_cols) ==
    IF df = <<>> THEN <<>>
    ELSE LET n == Len(df)
             init == drop_duplicates(SubSeq(df, 1, n - 1), key_cols)
         IN IF KeepRow(df, n, key_cols) THEN Append(init, df[n]) ELSE init

concat_new_first(df_old, df_new) == df_new \o df_old

\* pd.concat([df_old, df_new], ignore_index=True)
concat(df_old, df_new) == df_old \o df_new

\* The frame upsert_delta hands to write_deltalake.
upsert_frame(tbl, df_new, key_cols) ==
    IF ~is_delta_table(tbl) THEN df_new
    ELSE drop_duplicates(concat(to_pandas(tbl), df_new), key_cols)

KEY_COLS == {"from", "to"}
PARTITION_COLS == {"date_part"}

\* for attempt in range(1, retries + 1)
InLoop(attempt_, retries_) == attempt_ \in 1..retries_

LastAttempt_late(attempt_, retries_) == attempt_ = retries_ + 1

\* Whether the attempt that just failed was the last one: attempt == retries
LastAttempt(attempt_, retries_) == attempt_ = retries_

full_frame_append(tbl, df_norm) == to_pandas(tbl) \o df_norm

\* The frame run_full_factors hands to write_deltalake.
full_frame(tbl, df_norm) == df_norm

\* ------------------------------------------------- what the API can answer
ApiActuals == {Num(90), RawNull}

ApiRecords ==
    {[from |-> Iso(s), to |-> Iso(s + THIRTY_MIN),
      intensity |-> [actual |-> a, forecast |-> Num(95)]] :
        s \in Slots, a \in ApiActuals}

\* A JSON body with a `data` list, or one without it.
NoDataBody == [has_data |-> FALSE, data |-> <<>>]
Body(list) == [has_data |-> TRUE, data |-> list]

\* The API lists intervals in time order; an interval may come twice.
Chronological(b) ==
    \A i, j \in 1..Len(b) :
        i < j => to_datetime(b[i].from) <= to_datetime(b[j].from)

ApiBatches == {b \in SeqsUpTo(ApiRecords, MaxBatch) : Chronological(b)}

IntensityBodies == {Body(b) : b \in ApiBatches} \cup {NoDataBody}

FactorRecords ==
    {[c \in {"Coal", " Gas_gCO2perKWh "} |->
        IF c = "Coal" THEN Num(937) ELSE g] : g \in {Num(394), RawStr}}

\* The catalog is one record; the list can also come empty or be missing.
FactorBodies ==
    {Body(<<r>>) : r \in FactorRecords} \cup {Body(<<>>), NoDataBody}

\* ------------------------------------------------------------------- state
VARIABLES
    pc,          \* where main() of tp1 stands
    now,         \* the wall clock, read when a run starts
    intensity,   \* the bronze intensity table
    factors,     \* the bronze factors table
    before,      \* the table of the current stage, as the stage found it
    window,      \* what compute_incremental_window returned in this run
    retries,     \* call_api's parameter `retries`
    attempt,     \* call_api's loop variable
    requests,    \* requests.get calls of the current call_api
    sleeps,      \* time.sleep calls of the current call_api
    resp,        \* what the current call_api returned
    df_new,      \* the normalized frame of the current stage
    stage_i,     \* outcome of run_incremental_intensity in this run
    stage_f,     \* outcome of run_full_factors in this run
    silver_intensity,        \* the silver detail table
    silver_intensity_daily,  \* the silver daily table
    silver_factors,          \* the silver factors table
    upserts      \* the upsert_delta calls that run side by side, if any

vars == <<pc, now, intensity, factors, before, window, retries, attempt,
          requests, sleeps, resp, df_new, stage_i, stage_f,
          silver_intensity, silver_intensity_daily, silver_factors, upserts>>

silver == <<silver_intensity, silver_intensity_daily, silver_factors>>

tables == <<intensity, factors>>
call == <<retries, attempt, requests, sleeps>>

\* No upsert_delta calls running side by side.
NoUpserts == [calls |-> <<>>, writes |-> <<>>]

Init ==
    /\ pc = "idle"
    /\ now = ClockAt(0)
    /\ intensity = NoTable
    /\ factors = NoTable
    /\ before = NoTable
    /\ window = None
    /\ retries = DEFAULT_RETRIES
    /\ attempt = 0
    /\ requests = 0
    /\ sleeps = 0
    /\ resp = None
    /\ df_new = <<>>
    /\ stage_i = "pending"
    /\ stage_f = "pending"
    /\ silver_intensity = NoTable
    /\ silver_intensity_daily = NoTable
    /\ silver_factors = NoTable
    /\ upserts = NoUpserts

\* A new process runs main(): the module is loaded, the clock has moved on.
MainStart ==
    /\ pc = "idle"
    /\ \E t \in Clock : t >= now /\ now' = t
    /\ pc' = "intensity"
    /\ before' = intensity
    /\ window' = None
    /\ resp' = None
    /\ df_new' = <<>>
    /\ stage_i' = "pending"
    /\ stage_f' = "pending"
    /\ attempt' = 0
    /\ requests' = 0
    /\ sleeps' = 0
    /\ UNCHANGED <<tables, retries, silver, upserts>>

\* run_incremental_intensity, up to the fetch: no window, no work.
ComputeWindow ==
    /\ pc = "intensity"
    /\ window' = compute_incremental_window(intensity, now)
    /\ IF window' = None
       THEN /\ pc' = "factors"
            /\ stage_i' = "noop"
            /\ UNCHANGED attempt
       ELSE /\ pc' = "fetch_intensity"
            /\ attempt' = 1
            /\ UNCHANGED stage_i
    /\ UNCHANGED <<now, tables, before, retries, requests, sleeps, resp,
                   df_new, stage_f, silver, upserts>>

Fetching == pc \in {"fetch_intensity", "fetch_factors"}

Bodies == IF pc = "fetch_intensity" THEN IntensityBodies ELSE FactorBodies

\* call_api: one attempt whose request succeeds; the body is returned.
ApiAttemptOk ==
    /\ Fetching
    /\ InLoop(attempt, retries)
    /\ requests' = requests + 1
    /\ \E b \in Bodies : resp' = b
    /\ pc' = IF pc = "fetch_intensity" THEN "store_intensity" ELSE "store_factors"
    /\ UNCHANGED <<now, tables, before, window, retries, attempt, sleeps,
                   df_new, stage_i, stage_f, silver, upserts>>

\* call_api: one attempt whose request fails; the last one re-raises, and
\* main() has no handler, so the process ends there.
ApiAttemptFail ==
    /\ Fetching
    /\ InLoop(attempt, retries)
    /\ requests' = requests + 1
    /\ IF LastAttempt(attempt, retries)
       THEN /\ pc' = "crashed"
            /\ IF pc = "fetch_intensity"
               THEN stage_i' = "fetch_failed" /\ UNCHANGED stage_f
               ELSE stage_f' = "fetch_failed" /\ UNCHANGED stage_i
            /\ UNCHANGED <<attempt, sleeps>>
       ELSE /\ sleeps' = sleeps + 1
            /\ attempt' = attempt + 1
            /\ UNCHANGED <<pc, stage_i, stage_f>>
    /\ UNCHANGED <<now, tables, before, window, retries, resp, df_new,
                   silver, upserts>>

\* run_incremental_intensity after the fetch: normalize and upsert.
StoreIntensity ==
    /\ pc = "store_intensity"
    /\ df_new' = normalize_intensity(get_intensity_range(resp), now)
    /\ LET df_all == upsert_frame(intensity, df_new', KEY_COLS) IN
       IF write_raises(df_all, PARTITION_COLS)
       THEN /\ pc' = "crashed"
            /\ stage_i' = "write_failed"
            /\ UNCHANGED intensity
       ELSE /\ intensity' = write_deltalake(df_all)
            /\ pc' = "factors"
            /\ stage_i' = "ok"
    /\ UNCHANGED <<now, factors, before, window, call, resp, stage_f,
                   silver, upserts>>

\* run_full_factors, up to the fetch.
FactorsStart ==
    /\ pc = "factors"
    /\ pc' = "fetch_factors"
    /\ attempt' = 1
    /\ requests' = 0
    /\ sleeps' = 0
    /\ resp' = None
    /\ df_new' = <<>>
    /\ stage_f' = "started"
    /\ before' = factors
    /\ window' = None
    /\ UNCHANGED <<now, tables, retries, stage_i, silver, upserts>>

\* run_full_factors after the fetch: normalize and overwrite.
StoreFactors ==
    /\ pc = "store_factors"
    /\ df_new' = normalize_factors(get_intensity_factors(resp), now)
    /\ IF write_raises(full_frame(factors, df_new'), {})
       THEN /\ pc' = "crashed"
            /\ stage_f' = "write_failed"
            /\ UNCHANGED factors
       ELSE /\ factors' = write_deltalake(full_frame(factors, df_new'))
            /\ pc' = "done"
            /\ stage_f' = "ok"
    /\ UNCHANGED <<now, intensity, before, window, call, resp, stage_i,
                   silver, upserts>>

\* The process ends, normally or with the exception that reached main().
MainExit ==
    /\ pc \in {"done", "crashed"}
    /\ pc' = "idle"
    /\ UNCHANGED <<now, tables, before, window, call, resp, df_new,
                   stage_i, stage_f, silver, upserts>>

Next ==
    \/ MainStart
    \/ ComputeWindow
    \/ ApiAttemptOk
    \/ ApiAttemptFail
    \/ StoreIntensity
    \/ FactorsStart
    \/ StoreFactors
    \/ MainExit

Spec == Init /\ [][Next]_vars

\* ------------------------------------------- call_api for any `retries`
\* call_api(path, retries=n) on the intensity path, for every n it can be
\* given; each attempt ends (the request has a timeout), so the loop is
\* weakly fair.
InitRetry ==
    /\ pc = "fetch_intensity"
    /\ now = ClockAt(0)
    /\ intensity = NoTable
    /\ factors = NoTable
    /\ before = NoTable
    /\ window = None
    /\ retries \in 1..MaxRetries
    /\ attempt = 1
    /\ requests = 0
    /\ sleeps = 0
    /\ resp = None
    /\ df_new = <<>>
    /\ stage_i = "pending"
    /\ stage_f = "pending"
    /\ silver_intensity = NoTable
    /\ silver_intensity_daily = NoTable
    /\ silver_factors = NoTable
    /\ upserts = NoUpserts

\* The caller calls call_api again.
CallAgain ==
    /\ pc \in {"store_intensity", "crashed"}
    /\ pc' = "fetch_intensity"
    /\ retries' \in 1..MaxRetries
    /\ attempt' = 1
    /\ requests' = 0
    /\ sleeps' = 0
    /\ resp' = None
    /\ stage_i' = "pending"
    /\ UNCHANGED <<now, tables, before, window, df_new, stage_f,
                   silver, upserts>>

NextRetry ==
    \/ ApiAttemptOk
    \/ ApiAttemptFail
    \/ CallAgain

SpecRetry ==
    InitRetry /\ [][NextRetry]_vars /\ WF_vars(ApiAttemptOk \/ ApiAttemptFail)

\* ------------------------------------------- upsert_delta, call after call
\* run_incremental_intensity from its fetch result on, again and again at
\* one clock reading, starting from no table: every table a sequence of
\* upserts can build, met by every batch the API can answer.
InitUpsert ==
    /\ pc = "between_runs"
    /\ now = ClockAt(0)
    /\ intensity = NoTable
    /\ factors = NoTable
    /\ before = NoTable
    /\ window = None
    /\ retries = DEFAULT_RETRIES
    /\ attempt = 1
    /\ requests = 1
    /\ sleeps = 0
    /\ resp = None
    /\ df_new = <<>>
    /\ stage_i = "pending"
    /\ stage_f = "pending"
    /\ silver_intensity = NoTable
    /\ silver_intensity_daily = NoTable
    /\ silver_factors = NoTable
    /\ upserts = NoUpserts

\* A run has fetched a batch and is about to normalize and upsert it.
UpsertCall ==
    /\ pc = "between_runs"
    /\ pc' = "store_intensity"
    /\ before' = intensity
    /\ resp' \in IntensityBodies
    /\ UNCHANGED <<now, tables, window, call, df_new, stage_i, stage_f,
                   silver, upserts>>

\* The run is over; its locals are gone.
UpsertReturn ==
    /\ pc \in {"factors", "crashed"}
    /\ pc' = "between_runs"
    /\ before' = NoTable
    /\ resp' = None
    /\ df_new' = <<>>
    /\ stage_i' = "pending"
    /\ UNCHANGED <<now, tables, window, call, stage_f, silver, upserts>>

NextUpsert ==
    \/ UpsertCall
    \/ StoreIntensity
    \/ UpsertReturn

SpecUpsert == InitUpsert /\ [][NextUpsert]_vars

\* ------------------------------------------- run_full_factors on any table
FactorTables ==
    {NoTable} \cup
    {write_deltalake(normalize_factors(get_intensity_factors(b), t)) :
        b \in {Body(<<r>>) : r \in FactorRecords}, t \in Clock}

InitFactors ==
    /\ pc = "factors"
    /\ now \in Clock
    /\ intensity = NoTable
    /\ factors \in FactorTables
    /\ before = NoTable
    /\ window = None
    /\ retries = DEFAULT_RETRIES
    /\ attempt = 0
    /\ requests = 0
    /\ sleeps = 0
    /\ resp = None
    /\ df_new = <<>>
    /\ stage_i = "noop"
    /\ stage_f = "pending"
    /\ silver_intensity = NoTable
    /\ silver_intensity_daily = NoTable
    /\ silver_factors = NoTable
    /\ upserts = NoUpserts

NextFactors ==
    \/ FactorsStart
    \/ ApiAttemptOk
    \/ ApiAttemptFail
    \/ StoreFactors

SpecFactors == InitFactors /\ [][NextFactors]_vars

\* ------------------------------- compute_incremental_window on any table
NoFromRows ==
    {<<r>> : r \in {[date_part |-> date_of(s), ingestion_ts |-> Iso(ClockAt(0))] :
                      s \in Slots}}

WindowTables ==
    {NoTable, write_deltalake(<<>>)}
    \cup {write_deltalake(df) : df \in NoFromRows}
    \cup {write_deltalake(normalize_intensity(json_normalize_intensity(b), ClockAt(0))) :
            b \in ApiBatches \ {<<>>}}

InitWindow ==
    /\ pc = "intensity"
    /\ now \in Clock
    /\ intensity \in WindowTables
    /\ before = intensity
    /\ factors = NoTable
    /\ window = None
    /\ retries = DEFAULT_RETRIES
    /\ attempt = 0
    /\ requests = 0
    /\ sleeps = 0
    /\ resp = None
    /\ df_new = <<>>
    /\ stage_i = "pending"
    /\ stage_f = "pending"
    /\ silver_intensity = NoTable
    /\ silver_intensity_daily = NoTable
    /\ silver_factors = NoTable
    /\ upserts = NoUpserts

NextWindow == ComputeWindow

SpecWindow == InitWindow /\ [][NextWindow]_vars

\* ------------------------------------------------ tp2: silver transforms
\* Day 0 of the epoch is Monday 2024-01-01 and every instant of the model
\* falls in that January, so the calendar fields need no month lengths.
year_of(t) == 2024
month_of(t) == 1
day_of(t) == date_of(t) + 1
hour_of(t) == (t % MINUTES_PER_DAY) \div 60
day_name(t) ==
    <<"Monday", "Tuesday", "Wednesday", "Thursday", "Friday", "Saturday",
      "Sunday">>[(date_of(t) % 7) + 1]

\* df.get(col), coerced: a missing column reads as all-NaN
get_numeric(r, col) == IF col \in DOMAIN r THEN to_numeric(r[col]) ELSE NaN

fillna_forecast_first(a, b) == IF b = NaN THEN a ELSE b

\* a.fillna(b)
fillna(a, b) == IF a = NaN THEN b ELSE a

classify_intensity_strict(v) ==
    IF v = NaN THEN "unknown"
    ELSE IF v.n < 100 THEN "low"
    ELSE IF v.n < 200 THEN "moderate"
    ELSE IF v.n < 300 THEN "high"
    ELSE "very high"

classify_intensity(v) ==
    IF v = NaN THEN "unknown"
    ELSE IF v.n <= 100 THEN "low"
    ELSE IF v.n <= 200 THEN "moderate"
    ELSE IF v.n <= 300 THEN "high"
    ELSE "very high"

classify_factor(v) ==
    IF v = NaN THEN "unknown"
    ELSE IF v.n <= 150 THEN "low"
    ELSE IF v.n <= 400 THEN "medium"
    ELSE "high"

\* A record with more fields.
Extend(r, more) ==
    [c \in DOMAIN r \cup DOMAIN more |->
        IF c \in DOMAIN more THEN more[c] ELSE r[c]]

transform_intensity(df, now_) ==
    IF df = <<>> THEN df
    ELSE LET dd == drop_duplicates(df, KEY_COLS) IN
         [i \in 1..Len(dd) |->
            LET r == dd[i]
                actual == get_numeric(r, "intensity_actual")
                forecast == get_numeric(r, "intensity_forecast")
                value == fillna(actual, forecast)
            IN Extend(r,
                 [date |-> date_of(r.from),
                  year |-> year_of(r.from),
                  month |-> month_of(r.from),
                  day |-> day_of(r.from),
                  hour |-> hour_of(r.from),
                  weekday |-> day_name(r.from),
                  intensity_actual |-> actual,
                  intensity_forecast |-> forecast,
                  intensity_value |-> value,
                  intensity_level |-> classify_intensity(value),
                  processed_ts |-> Iso(now_)])]

RECURSIVE SortedSeq(_)
SortedSeq(S) ==
    IF S = {} THEN <<>>
    ELSE LET m == CHOOSE x \in S : \A y \in S : x <= y
         IN <<m>> \o SortedSeq(S \ {m})

RECURSIVE SumSeq(_)
SumSeq(q) == IF q = <<>> THEN 0 ELSE q[1] + SumSeq(Tail(q))

\* The non-null intensity_value entries of one date, in row order.
DayValues(df, d) ==
    LET rows == SelectSeq(df, LAMBDA r : r.date = d /\ r.intensity_value # NaN)
    IN [i \in 1..Len(rows) |-> rows[i].intensity_value.n]

\* An exact mean: sum over count.
Frac(sum, n) == [k |-> "frac", sum |-> sum, n |-> n]

build_intensity_daily(df, now_) ==
    IF df = <<>> THEN df
    ELSE LET dates == SortedSeq({df[i].date : i \in 1..Len(df)}) IN
         [g \in 1..Len(dates) |->
            LET vals == DayValues(df, dates[g])
                first == CHOOSE i \in 1..Len(df) : df[i].date = dates[g]
            IN [date |-> dates[g],
                intensity_mean |->
                    IF vals = <<>> THEN NaN ELSE Frac(SumSeq(vals), Len(vals)),
                intensity_max |->
                    IF vals = <<>> THEN NaN ELSE Num(MaxOf(Range(vals))),
                interval_count |-> Len(vals),
                year |-> year_of(df[first].from),
                month |-> month_of(df[first].from),
                processed_ts |-> Iso(now_)]]

\* "gco2perkwh" in c
has_gco2perkwh(c) == c \in {"gas_gco2perkwh"}

\* a sorts before or with b; NaN sorts last
SortsBefore(a, b) == b = NaN \/ (a # NaN /\ a.n <= b.n)

RECURSIVE sort_values(_, _)
sort_values(df, col) ==
    IF df = <<>> THEN <<>>
    ELSE LET n == Len(df)
             init == sort_values(SubSeq(df, 1, n - 1), col)
             r == df[n]
             after == {i \in 1..Len(init) : ~SortsBefore(init[i][col], r[col])}
             at == IF after = {} THEN Len(init) + 1
                   ELSE CHOOSE i \in after : \A j \in after : i <= j
         IN SubSeq(init, 1, at - 1) \o <<r>> \o SubSeq(init, at, Len(init))

transform_factors(df, now_) ==
    IF df = <<>> THEN df
    ELSE LET renamed == [i \in 1..Len(df) |-> rename_lower(df[i])]
             factor_cols == {c \in Columns(renamed) : has_gco2perkwh(c)}
         IN IF factor_cols = {}
            THEN [i \in 1..Len(renamed) |->
                    Extend(renamed[i], [processed_ts |-> Iso(now_)])]
            ELSE LET factor_col == CHOOSE c \in factor_cols : TRUE
                     numeric == [i \in 1..Len(renamed) |->
                        Extend(renamed[i],
                               [c \in {factor_col} |-> to_numeric(renamed[i][c])])]
                     sorted == sort_values(numeric, factor_col)
                 IN [i \in 1..Len(sorted) |->
                        Extend(sorted[i],
                               [factor_level |-> classify_factor(sorted[i][factor_col]),
                                processed_ts |-> Iso(now_)])]

YEAR_MONTH == {"year", "month"}

\* process_intensity: bronze -> silver detail and silver daily.  Loading a
\* table that does not exist raises.
ProcessIntensity ==
    /\ pc = "tp2_intensity"
    /\ IF ~is_delta_table(intensity)
       THEN /\ pc' = "tp2_crashed"
            /\ stage_i' = "load_failed"
            /\ UNCHANGED <<silver_intensity, silver_intensity_daily>>
       ELSE LET df_silver == transform_intensity(to_pandas(intensity), now)
                df_daily == build_intensity_daily(df_silver, now)
            IN IF write_raises(df_silver, YEAR_MONTH)
               THEN /\ pc' = "tp2_crashed"
                    /\ stage_i' = "write_failed"
                    /\ UNCHANGED <<silver_intensity, silver_intensity_daily>>
               ELSE /\ silver_intensity' = write_deltalake(df_silver)
                    /\ IF write_raises(df_daily, YEAR_MONTH)
                       THEN /\ pc' = "tp2_crashed"
                            /\ stage_i' = "write_failed"
                            /\ UNCHANGED silver_intensity_daily
                       ELSE /\ silver_intensity_daily' = write_deltalake(df_daily)
                            /\ pc' = "tp2_factors"
                            /\ stage_i' = "ok"
    /\ UNCHANGED <<now, tables, before, window, call, resp, df_new, stage_f,
                   silver_factors, upserts>>

\* process_factors: bronze -> silver factors.
ProcessFactors ==
    /\ pc = "tp2_factors"
    /\ IF ~is_delta_table(factors)
       THEN /\ pc' = "tp2_crashed"
            /\ stage_f' = "load_failed"
            /\ UNCHANGED silver_factors
       ELSE LET df_silver == transform_factors(to_pandas(factors), now) IN
            IF write_raises(df_silver, {})
            THEN /\ pc' = "tp2_crashed"
                 /\ stage_f' = "write_failed"
                 /\ UNCHANGED silver_factors
            ELSE /\ silver_factors' = write_deltalake(df_silver)
                 /\ pc' = "tp2_done"
                 /\ stage_f' = "ok"
    /\ UNCHANGED <<now, tables, before, window, call, resp, df_new, stage_i,
                   silver_intensity, silver_intensity_daily, upserts>>

\* What the bronze tables can hold when tp2 runs: rows as tp1 normalizes them.
BronzePayloads ==
    {[actual |-> Num(a), forecast |-> Num(42)] :
        a \in {100, 101, 200, 201, 300, 301}}
    \cup {[actual |-> NaN, forecast |-> f] : f \in {NaN, Num(42)}}

BronzeIntensityRows ==
    {[from |-> s, to |-> s + THIRTY_MIN,
      intensity_actual |-> p.actual, intensity_forecast |-> p.forecast,
      date_part |-> date_of(s), ingestion_ts |-> Iso(ClockAt(0))] :
        s \in Slots, p \in BronzePayloads}

BronzeIntensityTables ==
    {NoTable} \cup
    {write_deltalake(df) : df \in SeqsUpTo(BronzeIntensityRows, MaxBronze) \ {<<>>}}

BronzeFactorRows ==
    {[coal |-> Num(937), gas_gco2perkwh |-> g, ingestion_ts |-> Iso(ClockAt(0))] :
        g \in {NaN, Num(150), Num(151), Num(400), Num(401)}}
    \cup {[coal |-> Num(937), ingestion_ts |-> Iso(ClockAt(0))]}

SameColumns(df) == \A i \in 1..Len(df) : DOMAIN df[i] = DOMAIN df[1]

BronzeFactorTables ==
    {NoTable} \cup
    {write_deltalake(df) :
        df \in {q \in SeqsUpTo(BronzeFactorRows, MaxFactorRows) \ {<<>>} :
                  SameColumns(q)}}

SomeIntensityTable ==
    write_deltalake(<<[from |-> SlotBase, to |-> SlotBase + THIRTY_MIN,
                       intensity_actual |-> NaN, intensity_forecast |-> Num(42),
                       date_part |-> date_of(SlotBase),
                       ingestion_ts |-> Iso(ClockAt(0))]>>)

SomeFactorsTable ==
    write_deltalake(<<[coal |-> Num(937), gas_gco2perkwh |-> Num(150),
                       ingestion_ts |-> Iso(ClockAt(0))]>>)

\* tp2's main() starts on bronze tables tp1 left behind; one of the two
\* tables ranges over all its contents while the other is a fixed one or
\* missing.
InitSilver ==
    /\ pc = "tp2_intensity"
    /\ now = ClockAt(1)
    /\ \/ /\ intensity \in BronzeIntensityTables
          /\ factors \in {NoTable, SomeFactorsTable}
       \/ /\ intensity \in {NoTable, SomeIntensityTable}
          /\ factors \in BronzeFactorTables
    /\ before = NoTable
    /\ window = None
    /\ retries = DEFAULT_RETRIES
    /\ attempt = 0
    /\ requests = 0
    /\ sleeps = 0
    /\ resp = None
    /\ df_new = <<>>
    /\ stage_i = "pending"
    /\ stage_f = "pending"
    /\ silver_intensity = NoTable
    /\ silver_intensity_daily = NoTable
    /\ silver_factors = NoTable
    /\ upserts = NoUpserts

NextSilver ==
    \/ ProcessIntensity
    \/ ProcessFactors

SpecSilver == InitSilver /\ [][NextSilver]_vars

\* --------------------------------------- upsert_delta, two calls at once
\* Two processes call upsert_delta on the bronze intensity table at the same
\* time.  A call touches the table three times: is_delta_table, to_pandas and
\* write_deltalake; the other call can run between any two of them.
Invocations == {"first", "second"}

\* The frames the two calls bring: normalized batches, the empty one included.
ConcurrentFrames ==
    {normalize_intensity(get_intensity_range(Body(b)), ClockAt(0)) :
        b \in {q \in ApiBatches : Len(q) <= MaxConcurrentBatch}}

\* The table the calls find: none, or one an earlier run wrote from a batch
\* of one interval.
ConcurrentTables ==
    {NoTable} \cup
    {write_deltalake(df) : df \in {f \in ConcurrentFrames : Len(f) = 1}}

snapshot_fresh(seen, tbl) == tbl

\* What the frame to write is built from: the table as the call saw it at
\* is_delta_table and to_pandas.  The table as it is at write time is not
\* read again.
snapshot(seen, tbl) == seen

InitConcurrent ==
    /\ pc = "concurrent_upserts"
    /\ now = ClockAt(0)
    /\ intensity \in ConcurrentTables
    /\ factors = NoTable
    /\ before = NoTable
    /\ window = None
    /\ retries = DEFAULT_RETRIES
    /\ attempt = 0
    /\ requests = 0
    /\ sleeps = 0
    /\ resp = None
    /\ df_new = <<>>
    /\ stage_i = "pending"
    /\ stage_f = "pending"
    /\ silver_intensity = NoTable
    /\ silver_intensity_daily = NoTable
    /\ silver_factors = NoTable
    /\ \E frames \in [Invocations -> ConcurrentFrames] :
          upserts = [calls |-> [p \in Invocations |->
                                  [at |-> "called", seen |-> NoTable,
                                   df_new |-> frames[p]]],
                     writes |-> <<>>]

\* One call moves on; the other stays where it is.
Moved(p, c) ==
    [upserts EXCEPT !.calls = [upserts.calls EXCEPT ![p] = c]]

\* `if not is_delta_table(path)`
UpsertCheck(p) ==
    LET c == upserts.calls[p] IN
    /\ pc = "concurrent_upserts"
    /\ c.at = "called"
    /\ upserts' = Moved(p, [c EXCEPT !.at = IF is_delta_table(intensity)
                                             THEN "reading" ELSE "writing"])
    /\ UNCHANGED <<pc, now, tables, before, window, call, resp, df_new,
                   stage_i, stage_f, silver>>

\* `df_old = DeltaTable(path).to_pandas()`
UpsertRead(p) ==
    LET c == upserts.calls[p] IN
    /\ pc = "concurrent_upserts"
    /\ c.at = "reading"
    /\ upserts' = Moved(p, [c EXCEPT !.at = "writing", !.seen = intensity])
    /\ UNCHANGED <<pc, now, tables, before, window, call, resp, df_new,
                   stage_i, stage_f, silver>>

\* The write_deltalake of either branch: df_new when the call saw no table,
\* else the merged frame.  A write that raises ends the call.
UpsertWrite(p) ==
    LET c == upserts.calls[p]
        df_all == upsert_frame(snapshot(c.seen, intensity), c.df_new,
                               KEY_COLS)
    IN
    /\ pc = "concurrent_upserts"
    /\ c.at = "writing"
    /\ IF write_raises(df_all, PARTITION_COLS)
       THEN /\ upserts' = Moved(p, [c EXCEPT !.at = "raised"])
            /\ UNCHANGED intensity
       ELSE /\ intensity' = write_deltalake(df_all)
            /\ upserts' = [calls |-> [upserts.calls EXCEPT
                                        ![p] = [c EXCEPT !.at = "returned"]],
                           writes |-> Append(upserts.writes, p)]
    /\ UNCHANGED <<pc, now, factors, before, window, call, resp, df_new,
                   stage_i, stage_f, silver>>

NextConcurrent ==
    \/ \E p \in Invocations : UpsertCheck(p)
    \/ \E p \in Invocations : UpsertRead(p)
    \/ \E p \in Invocations : UpsertWrite(p)

SpecConcurrent == InitConcurrent /\ [][NextConcurrent]_vars

\* ---------------------------------------------------------------- claims
Keys(df) == {KeyOf(df[i], KEY_COLS) : i \in 1..Len(df)}

UniqueKeys(df) ==
    \A i, j \in 1..Len(df) :
        KeyOf(df[i], KEY_COLS) = KeyOf(df[j], KEY_COLS) => i = j

RowsWithKey(df, k) == {r \in Range(df) : KeyOf(r, KEY_COLS) = k}

\* run_incremental_intensity has just returned from a completed upsert_delta.
Upserted == pc = "factors" /\ stage_i = "ok"

\* The upsert took the merge path and some fetched key was already stored.
Overlapped == Upserted /\ before.exists /\ Keys(before.rows) \cap Keys(df_new) # {}

\* C1: after upsert_delta on an existing table that shares keys with the new
\* rows, the table holds exactly the union of the stored and the new keys,
\* one row per key, and every colliding key keeps a previously stored row.
C1_OverlapSafety ==
    Overlapped =>
        /\ Keys(intensity.rows) = Keys(before.rows) \cup Keys(df_new)
        /\ UniqueKeys(intensity.rows)
        /\ \A k \in Keys(before.rows) \cap Keys(df_new) :
              RowsWithKey(intensity.rows, k) \subseteq Range(before.rows)

\* Stored {k1,k2}, fetched {k2,k3}, and the fetched k2 row differs from the
\* stored one.
C1_Witness ==
    /\ Overlapped
    /\ Keys(before.rows) \ Keys(df_new) # {}
    /\ Keys(df_new) \ Keys(before.rows) # {}
    /\ \E k \in Keys(before.rows) \cap Keys(df_new) :
          RowsWithKey(df_new, k) \cap Range(before.rows) = {}

\* C2: upsert_delta of R on no table stores R, and upsert_delta of the same
\* R (unique keys) on that table leaves the rows as they were, none twice.
C2_IdempotentUpsert ==
    /\ (Upserted /\ ~before.exists) => intensity.rows = df_new
    /\ (Upserted /\ before.exists /\ before.rows = df_new
           /\ UniqueKeys(df_new)) =>
          /\ Range(intensity.rows) = Range(before.rows)
          /\ Len(intensity.rows) = Len(before.rows)

C2_Witness ==
    /\ Upserted
    /\ before.exists
    /\ before.rows = df_new
    /\ UniqueKeys(df_new)
    /\ Len(df_new) = MaxBatch

\* C3: the bronze intensity table never holds two rows with the same
\* (from, to) key.
C3_NaturalKeyUnique == UniqueKeys(intensity.rows)

\* The intensity stage of this run has computed its window.
WindowComputed == pc \in {"fetch_intensity", "store_intensity", "factors"}

IsMaxFrom(df, T) ==
    /\ "from" \in Columns(df)
    /\ \E i \in 1..Len(df) : df[i].from = T
    /\ \A i \in 1..Len(df) : df[i].from <= T

\* C4: with a stored maximum `from` of T the window is [T + 30 min, now];
\* when T + 30 min >= now there is no window, and the stage returns without
\* a request and without touching the table.
C4_WindowMonotonicity ==
    (WindowComputed /\ before.exists) =>
        \A T \in Slots :
            IsMaxFrom(before.rows, T) =>
                IF T + 30 >= now
                THEN /\ window = None
                     /\ pc = "factors"
                     /\ stage_i = "noop"
                     /\ requests = 0
                     /\ intensity = before
                ELSE window = <<Iso(T + 30), Iso(now)>>

\* The stored maximum lies in the future and the stage has returned.
C4_Witness ==
    /\ pc = "factors"
    /\ stage_i = "noop"
    /\ before.exists
    /\ \E T \in Slots : IsMaxFrom(before.rows, T) /\ T > now

\* What normalize_factors makes of one fetched record at time t.
NormalizedFactor(rec, t) ==
    [c \in {"coal", "gas_gco2perkwh", "ingestion_ts"} |->
        IF c = "coal" THEN rec["Coal"]
        ELSE IF c = "ingestion_ts" THEN Iso(t)
        ELSE IF rec[" Gas_gCO2perKWh "].k = "num" THEN rec[" Gas_gCO2perKWh "]
        ELSE NaN]

\* C6: after a successful run_full_factors the factors table holds exactly
\* the normalized rows fetched in that run, whatever it held before.
C6_FactorsOverwrite ==
    (pc = "done") =>
        /\ factors.exists
        /\ resp.has_data
        /\ Len(factors.rows) = Len(resp.data)
        /\ \A i \in 1..Len(resp.data) :
              factors.rows[i] = NormalizedFactor(resp.data[i], now)

\* The run replaced a table that held other rows.
C6_Witness ==
    /\ pc = "done"
    /\ before.exists
    /\ Range(before.rows) \cap Range(factors.rows) = {}

\* upsert_delta was reached in this run, and has returned or raised.
StoreReached ==
    \/ pc = "factors" /\ stage_i = "ok"
    \/ pc = "crashed" /\ stage_i = "write_failed"

\* C7: when the response carries no records, run_incremental_intensity
\* finishes without error and the stored rows are the ones it found.
C7_EmptyIsNoop ==
    (StoreReached /\ get_data(resp) = <<>>) =>
        /\ stage_i = "ok"
        /\ Range(intensity.rows) = Range(before.rows)

\* C8: when the intensity stage fails with its retries exhausted, main()
\* still attempts the factors stage before it ends.
C8_StageIndependence ==
    (pc \in {"done", "crashed"} /\ stage_i = "fetch_failed") =>
        stage_f # "pending"

\* call_api is between attempts.
Calling == pc = "fetch_intensity"

C9_Safe ==
    /\ requests <= retries
    /\ Calling =>
          /\ requests < retries
          /\ attempt = requests + 1
          /\ sleeps = requests
    /\ (pc = "store_intensity") =>
          /\ resp # None
          /\ requests = attempt
          /\ sleeps = requests - 1
    /\ (pc = "crashed") =>
          /\ requests = retries
          /\ sleeps = retries - 1

\* C9: call_api makes at most `retries` requests, returns at the first one
\* that succeeds, sleeps once after each failed request but the last, raises
\* exactly when the last one fails, and always comes to an end.
C9_BoundedRetry == []C9_Safe /\ (Calling ~> ~Calling)

\* The last allowed attempt succeeded, after failures.
C9_Witness ==
    /\ pc = "store_intensity"
    /\ retries = MaxRetries
    /\ requests = retries
    /\ sleeps = retries - 1

\* C5: without a previous maximum `from` (no table, no rows, or no `from`
\* column) the window is [now - 7 days, now].
C5_BootstrapWindow ==
    (pc # "intensity" /\ (~intensity.exists \/ intensity.rows = <<>>
                          \/ "from" \notin Columns(intensity.rows))) =>
        /\ window = <<Iso(now - 7 * 24 * 60), Iso(now)>>
        /\ pc = "fetch_intensity"

\* A table with rows but no `from` column got the bootstrap window.
C5_Witness ==
    /\ pc = "fetch_intensity"
    /\ intensity.exists
    /\ intensity.rows # <<>>
    /\ "from" \notin Columns(intensity.rows)

\* C10: intensity_level is "low" up to 100, "moderate" up to 200, "high" up
\* to 300, "very high" above and "unknown" for a null value; factor_level is
\* "low" up to 150, "medium" up to 400 and "high" above.
C10_ClassificationBoundaries ==
    /\ \A r \in Range(silver_intensity.rows) :
          LET v == r.intensity_value
              level == r.intensity_level
          IN IF v = NaN THEN level = "unknown"
             ELSE /\ (v.n <= 100) => level = "low"
                  /\ (100 < v.n /\ v.n <= 200) => level = "moderate"
                  /\ (200 < v.n /\ v.n <= 300) => level = "high"
                  /\ (v.n > 300) => level = "very high"
    /\ \A r \in Range(silver_factors.rows) :
          ("gas_gco2perkwh" \in DOMAIN r) =>
              LET v == r.gas_gco2perkwh
                  level == r.factor_level
              IN IF v = NaN THEN level = "unknown"
                 ELSE /\ (v.n <= 150) => level = "low"
                      /\ (150 < v.n /\ v.n <= 400) => level = "medium"
                      /\ (v.n > 400) => level = "high"

\* Both transforms ran, on values that sit on a boundary.
C10_Witness ==
    /\ pc = "tp2_done"
    /\ \E r \in Range(silver_intensity.rows) :
          r.intensity_value = Num(300) /\ r.intensity_level = "high"
    /\ \E r \in Range(silver_intensity.rows) :
          r.intensity_value = Num(101) /\ r.intensity_level = "moderate"
    /\ \E r \in Range(silver_factors.rows) :
          "gas_gco2perkwh" \in DOMAIN r /\ r.gas_gco2perkwh = Num(150)
            /\ r.factor_level = "low"

\* The bronze row a silver detail row was made from.
MadeFrom(r, b) ==
    /\ KeyOf(b, KEY_COLS) = KeyOf(r, KEY_COLS)
    /\ to_numeric(b.intensity_actual) = r.intensity_actual
    /\ to_numeric(b.intensity_forecast) = r.intensity_forecast

\* C11: every silver detail row comes from a bronze row and its
\* intensity_value is that row's actual when the actual is not null, else its
\* forecast; when both are null the value is null and the level "unknown".
C11_FallbackMetric ==
    \A r \in Range(silver_intensity.rows) :
        /\ \E b \in Range(intensity.rows) : MadeFrom(r, b)
        /\ r.intensity_actual # NaN => r.intensity_value = r.intensity_actual
        /\ r.intensity_actual = NaN => r.intensity_value = r.intensity_forecast
        /\ (r.intensity_actual = NaN /\ r.intensity_forecast = NaN) =>
              (r.intensity_value = NaN /\ r.intensity_level = "unknown")

\* transform_intensity ran on a table holding a row that falls back to its
\* forecast of 42 and a row with both values null.
C11_Witness ==
    /\ pc = "tp2_factors"
    /\ \E r \in Range(silver_intensity.rows) :
          /\ r.intensity_actual = NaN
          /\ r.intensity_forecast = Num(42)
          /\ r.intensity_value = Num(42)
    /\ \E r \in Range(silver_intensity.rows) :
          /\ r.intensity_actual = NaN
          /\ r.intensity_forecast = NaN
          /\ r.intensity_level = "unknown"

\* The detail rows of one date.
DetailRowsOf(df, d) == {i \in 1..Len(df) : df[i].date = d}

\* C12: the daily table has exactly one row per distinct date of the detail
\* table, and that row's interval_count is the number of detail rows sharing
\* the date.
C12_DailyAggregation ==
    LET detail == silver_intensity.rows
        daily == silver_intensity_daily.rows
    IN silver_intensity_daily.exists =>
         /\ {daily[g].date : g \in 1..Len(daily)}
               = {detail[i].date : i \in 1..Len(detail)}
         /\ \A g, h \in 1..Len(daily) : daily[g].date = daily[h].date => g = h
         /\ \A g \in 1..Len(daily) :
               daily[g].interval_count
                 = Cardinality(DetailRowsOf(detail, daily[g].date))

\* Both concurrent calls have written and returned.
BothReturned == \A p \in Invocations : upserts.calls[p].at = "returned"

\* C13: when two concurrent upsert_delta calls have both returned, the table
\* holds the keys the later writer saw when it read plus the keys it brought,
\* and nothing else; so when both calls read the same snapshot, every key
\* that only the earlier writer brought is gone from the table.
C13_LostUpdate ==
    BothReturned =>
        LET earlier == upserts.calls[upserts.writes[1]]
            later == upserts.calls[upserts.writes[2]]
            kept == Keys(later.seen.rows) \cup Keys(later.df_new)
        IN /\ Keys(intensity.rows) = kept
           /\ later.seen = earlier.seen =>
                 \A k \in Keys(earlier.df_new) \ kept :
                     k \notin Keys(intensity.rows)

\* Both calls read the same existing table, both wrote, and a key the earlier
\* writer added is not in the table.
C13_Witness ==
    /\ BothReturned
    /\ LET earlier == upserts.calls[upserts.writes[1]]
           later == upserts.calls[upserts.writes[2]]
       IN /\ earlier.seen.exists
          /\ later.seen = earlier.seen
          /\ \E k \in Keys(earlier.df_new) :
                k \notin Keys(earlier.seen.rows) /\ k \notin Keys(intensity.rows)

====
